---- MODULE Spec2Model ----
(***************************************************************************)
(* A model of the gigs scrapers (mintydevdaz/gigs): the venue resolver of  *)
(* gigs/scrapers/moshtix_venue.py, the page crawls and record extraction   *)
(* of the per-source scrapers, the run loop of webscraper(), and the       *)
(* functions of one argument (address, date, title, price, dedup) called   *)
(* on their own.                                                           *)
(*                                                                         *)
(* Each entry point of the repository is a program of its own (every       *)
(* module ends in `if __name__ == "__main__"`); `prog` names the one that  *)
(* runs and the variables of the others stay idle.                         *)
(***************************************************************************)
EXTENDS Integers, Sequences, FiniteSets, TLC

VARIABLES
    prog,           \* the entry point that runs
    \* ---- moshtix_fetch_venue (moshtix_venue.py) ----
    pcV,            \* position in moshtix_fetch_venue
    run,            \* 1: first run, 2: a second run on the files the first left
    data,           \* mtix_price.json: the events read
    venuesFile,     \* mtix_venues.json on disk
    moshtixFile,    \* moshtix.json on disk
    venues,         \* the in-memory directory (an insertion-ordered dict)
    loaded,         \* the directory as open_json returned it this run
    success1, errors1, success2, errors2,
    todo,           \* find_venue_url: the venue names still to search
    valid_results,  \* find_venue_url: success
    invalid_results,\* find_venue_url: errors
    toLocate,       \* get_location: the valid results still to fetch
    locations,      \* get_location: result
    searches,       \* search requests sent this run, per venue name
    fetches,        \* venue-page requests sent this run, per venue name
    address,        \* the address text fetched this run, per venue name
    remaining,      \* the "Remaining Errors" log line
    venuesWrite,    \* how this run's write of mtix_venues.json ended
    moshtixWrite,   \* how this run's write of moshtix.json ended
    firstRun,       \* in a second run: what the first run resolved and saved
    \* ---- a page crawl of one source ----
    pcC,            \* position in the scraper
    source,         \* the scraper that crawls
    discovered,     \* the last-page value read off the site, or handed in
    stop,           \* the exclusive end of the range of pages
    page,           \* the loop variable: the next page index
    requested,      \* the page indices requested, in order
    pageResult,     \* how the request of each page ended
    result,         \* the list the crawl returns
    \* ---- record extraction of one source ----
    pcX,            \* position in the extraction function
    extractor,      \* the function that runs
    batch,          \* its input: the items, each by the parts it lacks
    ix,             \* the loop variable: the next item
    out,            \* the list being built
    returned,       \* the list the caller receives
    \* ---- webscraper() ----
    pcW,            \* position in webscraper()
    bot,            \* index of the next scraper of the list
    invoked,        \* the scrapers invoked, in order
    ended,          \* how the scraper that ended the run ended
    wrote,          \* the scrapers that reached their export_json
    \* ---- one call of a function on one value ----
    pcF,            \* "called" before the function ran, "returned" after
    callee,         \* the function called
    arg,            \* its argument
    ret             \* what the caller received

varsV == <<pcV, run, data, venuesFile, moshtixFile, venues, loaded,
           success1, errors1, success2, errors2, todo, valid_results,
           invalid_results, toLocate, locations, searches, fetches, address,
           remaining, venuesWrite, moshtixWrite, firstRun>>

varsC == <<pcC, source, discovered, stop, page, requested, pageResult, result>>

varsX == <<pcX, extractor, batch, ix, out, returned>>

varsW == <<pcW, bot, invoked, ended, wrote>>

varsF == <<pcF, callee, arg, ret>>

vars == <<prog, varsV, varsC, varsX, varsW, varsF>>

-----------------------------------------------------------------------------
(* Bounds of the model. *)

\* Venue names are 1..MaxVenue; their order stands for the order of the
\* strings, which is what sorted() compares.
MaxVenue == 2
\* The longest list of events read from mtix_price.json.
MaxEvents == 2
\* The largest last-page value a site reports (or an operator supplies).
MaxPage == 2
\* The items a page that parses holds.
ItemsPerPage == 2
\* The longest batch handed to a record-extraction function.
MaxBatch == 2

VenueNames == 1..MaxVenue

-----------------------------------------------------------------------------
(* Sequences. *)

Range(s) == {s[i] : i \in DOMAIN s}

RECURSIVE Perms(_)
\* Every sequence that lists the members of S once each.
Perms(S) ==
    IF S = {} THEN {<<>>}
    ELSE UNION {{<<x>> \o p : p \in Perms(S \ {x})} : x \in S}

SeqsUpTo(S, n) == UNION {[1..k -> S] : k \in 0..n}

-----------------------------------------------------------------------------
(* Events (utils.Gig as dumped to JSON) and the venue directory. *)

\* An event as moshtix_parse dumps it; the fields the resolver reads or
\* writes, and the source tag.
Event(i, v) ==
    [id |-> i, venue |-> v, suburb |-> "-", state |-> "-", source |-> "Moshtix"]

\* A directory is an insertion-ordered dict: a sequence of
\* [venue, entry] with distinct venue keys, entry a dict of strings.
Keys(d) == {d[i].venue : i \in DOMAIN d}

Entry(d, v) == d[CHOOSE i \in DOMAIN d : d[i].venue = v].entry

\* The entry add_to_json writes.
Loc(suburb, state) == [suburb |-> suburb, state |-> state]

IsSortedDir(d) == \A i, j \in DOMAIN d : i < j => d[i].venue < d[j].venue

\* A file on disk: its parsed content, or text json.load rejects.
File(content) == [ok |-> TRUE, content |-> content]
Corrupt == [ok |-> FALSE, content |-> <<>>]

-----------------------------------------------------------------------------
(* moshtix_venue.py: add_venue_info *)

\* A lookup that copies the suburb of the entry into both fields.
try_lookup_one_field(event, d) ==
    IF event.venue \notin Keys(d) THEN [ok |-> FALSE, event |-> event]
    ELSE LET e == Entry(d, event.venue) IN
         IF "suburb" \notin DOMAIN e \/ "state" \notin DOMAIN e
         THEN [ok |-> FALSE, event |-> event]
         ELSE [ok |-> TRUE,
               event |-> [event EXCEPT !.suburb = e.suburb, !.state = e.suburb]]

\* The try block of add_venue_info for one event: the event after it, and
\* whether it ran to the end. The assignment of suburb takes effect before
\* the lookup of state can raise.
try_lookup(event, d) ==
    IF event.venue \notin Keys(d) THEN [ok |-> FALSE, event |-> event]
    ELSE LET e == Entry(d, event.venue) IN
         IF "suburb" \notin DOMAIN e THEN [ok |-> FALSE, event |-> event]
         ELSE LET ev1 == [event EXCEPT !.suburb = e.suburb] IN
              IF "state" \notin DOMAIN e THEN [ok |-> FALSE, event |-> ev1]
              ELSE [ok |-> TRUE, event |-> [ev1 EXCEPT !.state = e.state]]

RECURSIVE add_venue_info(_, _)
add_venue_info(events, d) ==
    IF events = <<>> THEN [success |-> <<>>, errors |-> <<>>]
    ELSE LET r == try_lookup(Head(events), d)
             rest == add_venue_info(Tail(events), d)
         IN  IF r.ok
             THEN [success |-> <<r.event>> \o rest.success, errors |-> rest.errors]
             ELSE [success |-> rest.success, errors |-> <<r.event>> \o rest.errors]

-----------------------------------------------------------------------------
(* moshtix_venue.py: clean_address, extract_suburb_and_state *)

states == {"ACT", "NSW", "NT", "QLD", "SA", "TAS", "VIC", "WA"}

\* An address is the text split at its commas, each part split at its
\* spaces (upper-cased by get_location).
HasComma(addr) == Len(addr) > 1

RECURSIVE Join(_)
\* " ".join(tokens)
Join(tokens) ==
    IF tokens = <<>> THEN ""
    ELSE IF Len(tokens) = 1 THEN tokens[1]
    ELSE tokens[1] \o " " \o Join(Tail(tokens))

extract_suburb_and_state(addr) ==
    LET text == addr[Len(addr)]
        hits == {i \in DOMAIN text : text[i] \in states}
    IN  IF hits = {} THEN [raised |-> TRUE, suburb |-> "-", state |-> "-"]
        ELSE LET first == CHOOSE i \in hits : \A j \in hits : i <= j
                 state == text[first]
                 idx == CHOOSE i \in DOMAIN text :
                            text[i] = state /\ \A j \in 1..(i - 1) : text[j] # state
             IN  [raised |-> FALSE,
                  suburb |-> Join(SubSeq(text, 1, idx - 1)),
                  state |-> state]

\* A clean_address without the test for a comma.
clean_address_any_text(addr) ==
    LET r == extract_suburb_and_state(addr) IN
    IF r.raised THEN Loc("-", "-") ELSE Loc(r.suburb, r.state)

clean_address(addr) ==
    IF ~HasComma(addr) THEN Loc("-", "-")
    ELSE LET r == extract_suburb_and_state(addr) IN
         IF r.raised THEN Loc("-", "-") ELSE Loc(r.suburb, r.state)

\* The address texts a venue page may show.
AddrNoComma == << <<"NEWTOWN", "NSW", "2042">> >>
AddrNoState == << <<"1", "KING", "ST">>, <<"NEWTOWN">> >>
AddrGood == << <<"1", "KING", "ST">>, <<"NEWTOWN", "NSW", "2042">> >>
Addresses == {AddrNoComma, AddrNoState, AddrGood}

NoAddress == <<>>

-----------------------------------------------------------------------------
(* moshtix_venue.py: add_to_json *)

RECURSIVE put_if_absent(_, _, _)
\* venues.setdefault(venue, entry): a present key keeps its entry.
put_if_absent(d, venue, entry) ==
    IF d = <<>> THEN <<[venue |-> venue, entry |-> entry]>>
    ELSE IF Head(d).venue = venue THEN d
         ELSE <<Head(d)>> \o put_if_absent(Tail(d), venue, entry)

\* An assignment that leaves the new key as the only one of the dict.
put_dropping_rest(d, venue, entry) == <<[venue |-> venue, entry |-> entry]>>

RECURSIVE put(_, _, _)
\* venues[venue] = entry on an insertion-ordered dict: a present key keeps
\* its place and takes the new entry, a new key goes last.
put(d, venue, entry) ==
    IF d = <<>> THEN <<[venue |-> venue, entry |-> entry]>>
    ELSE IF Head(d).venue = venue
         THEN <<[venue |-> venue, entry |-> entry]>> \o Tail(d)
         ELSE <<Head(d)>> \o put(Tail(d), venue, entry)

\* A loop that works on a copy and leaves the dict it was handed as it was.
put_all_on_copy(d, locs) == d

RECURSIVE put_all(_, _)
\* The loop of add_to_json: what it leaves in the dict it was handed.
put_all(d, locs) ==
    IF locs = <<>> THEN d
    ELSE put_all(put(d, Head(locs).venue, Loc(Head(locs).suburb, Head(locs).state)),
                 Tail(locs))

RECURSIVE insert_sorted(_, _)
insert_sorted(item, d) ==
    IF d = <<>> THEN <<item>>
    ELSE IF item.venue < Head(d).venue THEN <<item>> \o d
         ELSE <<Head(d)>> \o insert_sorted(item, Tail(d))

RECURSIVE sorted(_)
\* sorted(venues.items()): ascending by key (the keys are distinct).
sorted(d) == IF d = <<>> THEN <<>> ELSE insert_sorted(Head(d), sorted(Tail(d)))

\* An add_to_json that returns the sorted directory without the locations.
add_to_json_unmerged(d, locs) == sorted(d)

\* What add_to_json returns.
add_to_json(d, locs) == sorted(put_all(d, locs))

-----------------------------------------------------------------------------
(* utils.py: open_json, export_json *)

\* How a write by export_json ends: done, open() refused (the file is as it
\* was), or failed after open() truncated the file.
WriteOutcomes == {"ok", "open_failed", "partial"}

export_json(file, content, outcome) ==
    CASE outcome = "ok" -> File(content)
      [] outcome = "open_failed" -> file
      [] outcome = "partial" -> Corrupt

-----------------------------------------------------------------------------
(* moshtix_venue.py: moshtix_fetch_venue *)

\* unknown_venues = {error["venue"] for error in errors1}
unknown_venues(errs) == {errs[i].venue : i \in DOMAIN errs}

\* A worklist with one entry per event that missed, not per venue name.
VenueWorklistsPerEvent(errs) == {[i \in DOMAIN errs |-> errs[i].venue]}

\* The orders in which `for venue_name in unknown_venues` may visit the set.
VenueWorklists(errs) == Perms(unknown_venues(errs))

NoCount == [v \in VenueNames |-> 0]
NoFirstRun == [resolved |-> {}, persisted |-> FALSE]
NoAddresses == [v \in VenueNames |-> NoAddress]

\* The directories the program itself persists: sorted by key, every entry
\* with both fields.
KnownEntry(v) == Loc("ENMORE", "NSW")

SavedDirectories ==
    {sorted(p) : p \in
        UNION {Perms({[venue |-> v, entry |-> KnownEntry(v)] : v \in K}) :
               K \in SUBSET VenueNames}}

\* An entry a hand-edited mtix_venues.json may hold: "state" left out.
PartialEntry(v) == [suburb |-> "GLEBE"]

\* The directories a mtix_venues.json edited by hand may hold: the keys in
\* any order, an entry with or without its "state".
EditedDirectories ==
    UNION {UNION {Perms({[venue |-> v, entry |-> IF v \in P THEN PartialEntry(v)
                                                 ELSE KnownEntry(v)] : v \in K}) :
                  P \in SUBSET K} : K \in SUBSET VenueNames}

\* The event lists mtix_price.json may hold.
EventLists ==
    {[i \in DOMAIN vs |-> Event(i, vs[i])] : vs \in SeqsUpTo(VenueNames, MaxEvents)}

InitVenueIdle ==
    /\ pcV = "idle" /\ run = 1 /\ data = <<>>
    /\ venuesFile = File(<<>>) /\ moshtixFile = File(<<>>)
    /\ venues = <<>> /\ loaded = <<>>
    /\ success1 = <<>> /\ errors1 = <<>> /\ success2 = <<>> /\ errors2 = <<>>
    /\ todo = <<>> /\ valid_results = <<>> /\ invalid_results = <<>>
    /\ toLocate = <<>> /\ locations = <<>>
    /\ searches = NoCount /\ fetches = NoCount /\ address = NoAddresses
    /\ remaining = <<>> /\ venuesWrite = "none" /\ moshtixWrite = "none"
    /\ firstRun = NoFirstRun

\* The state before moshtix_fetch_venue runs on files the program wrote.
InitVenue ==
    /\ prog = "moshtix_fetch_venue"
    /\ pcV = "start" /\ run = 1
    /\ data \in EventLists
    /\ venuesFile \in {File(d) : d \in SavedDirectories}
    /\ moshtixFile = File(<<>>)
    /\ venues = <<>> /\ loaded = <<>>
    /\ success1 = <<>> /\ errors1 = <<>> /\ success2 = <<>> /\ errors2 = <<>>
    /\ todo = <<>> /\ valid_results = <<>> /\ invalid_results = <<>>
    /\ toLocate = <<>> /\ locations = <<>>
    /\ searches = NoCount /\ fetches = NoCount /\ address = NoAddresses
    /\ remaining = <<>> /\ venuesWrite = "none" /\ moshtixWrite = "none"
    /\ firstRun = NoFirstRun

\* The state before moshtix_fetch_venue runs on a mtix_venues.json that was
\* edited by hand.
InitVenueEdited ==
    /\ prog = "moshtix_fetch_venue"
    /\ pcV = "start" /\ run = 1
    /\ data \in EventLists
    /\ venuesFile \in {File(d) : d \in EditedDirectories}
    /\ moshtixFile = File(<<>>)
    /\ venues = <<>> /\ loaded = <<>>
    /\ success1 = <<>> /\ errors1 = <<>> /\ success2 = <<>> /\ errors2 = <<>>
    /\ todo = <<>> /\ valid_results = <<>> /\ invalid_results = <<>>
    /\ toLocate = <<>> /\ locations = <<>>
    /\ searches = NoCount /\ fetches = NoCount /\ address = NoAddresses
    /\ remaining = <<>> /\ venuesWrite = "none" /\ moshtixWrite = "none"
    /\ firstRun = NoFirstRun

\* Lines 95-102: both files are read and the first lookup pass runs; with
\* misses, the set of their venue names is handed to find_venue_url.
\* json.load raises on a file it cannot parse and nothing catches it.
FirstPass ==
    /\ prog = "moshtix_fetch_venue" /\ pcV = "start"
    /\ IF ~venuesFile.ok
       THEN /\ pcV' = "crashed"
            /\ UNCHANGED <<venues, loaded, success1, errors1, todo>>
       ELSE LET r == add_venue_info(data, venuesFile.content) IN
            /\ venues' = venuesFile.content
            /\ loaded' = venuesFile.content
            /\ success1' = r.success
            /\ errors1' = r.errors
            /\ IF r.errors # <<>>
               THEN /\ todo' \in VenueWorklists(r.errors)
                    /\ pcV' = "find"
               ELSE /\ todo' = <<>>
                    /\ pcV' = "pass2"
    /\ UNCHANGED <<prog, run, data, venuesFile, moshtixFile, success2, errors2,
                   valid_results, invalid_results, toLocate, locations,
                   searches, fetches, address, remaining, venuesWrite,
                   moshtixWrite, firstRun>>
    /\ UNCHANGED <<varsC, varsX, varsW, varsF>>

\* How the search request of find_venue_url for one venue ends: get_request
\* returned None, the page has no result link, or a link was found.
SearchOutcomes == {"none", "no_link", "found"}

\* One iteration of the loop of find_venue_url (lines 28-41); after the
\* last one get_location starts on the valid results.
FindVenueUrl ==
    /\ prog = "moshtix_fetch_venue" /\ pcV = "find" /\ todo # <<>>
    /\ \E outcome \in SearchOutcomes :
        LET venue_name == Head(todo)
            valid == IF outcome = "found"
                     THEN Append(valid_results, venue_name) ELSE valid_results
        IN  /\ searches' = [searches EXCEPT ![venue_name] = @ + 1]
            /\ valid_results' = valid
            /\ invalid_results' = IF outcome = "no_link"
                                  THEN Append(invalid_results, venue_name)
                                  ELSE invalid_results
            /\ todo' = Tail(todo)
            /\ IF Tail(todo) # <<>>
               THEN pcV' = "find" /\ toLocate' = toLocate
               ELSE /\ toLocate' = valid
                    /\ pcV' = IF valid = <<>> THEN "merge" ELSE "locate"
    /\ UNCHANGED <<prog, run, data, venuesFile, moshtixFile, venues, loaded,
                   success1, errors1, success2, errors2, locations, fetches,
                   address, remaining, venuesWrite, moshtixWrite, firstRun>>
    /\ UNCHANGED <<varsC, varsX, varsW, varsF>>

\* How the request of get_location for one venue page ends: get_request
\* returned None, the page has no address node, or an address was read.
FetchOutcomes ==
    {[kind |-> k, text |-> NoAddress] : k \in {"none", "no_node"}}
        \cup {[kind |-> "address", text |-> a] : a \in Addresses}

\* One iteration of the loop of get_location (lines 67-80).
GetLocation ==
    /\ prog = "moshtix_fetch_venue" /\ pcV = "locate" /\ toLocate # <<>>
    /\ \E outcome \in FetchOutcomes :
        LET venue == Head(toLocate) IN
        /\ fetches' = [fetches EXCEPT ![venue] = @ + 1]
        /\ IF outcome.kind = "address"
           THEN LET loc == clean_address(outcome.text) IN
                /\ locations' = Append(locations,
                       [venue |-> venue, suburb |-> loc.suburb, state |-> loc.state])
                /\ address' = [address EXCEPT ![venue] = outcome.text]
           ELSE UNCHANGED <<locations, address>>
        /\ toLocate' = Tail(toLocate)
        /\ pcV' = IF Tail(toLocate) = <<>> THEN "merge" ELSE "locate"
    /\ UNCHANGED <<prog, run, data, venuesFile, moshtixFile, venues, loaded,
                   success1, errors1, success2, errors2, todo, valid_results,
                   invalid_results, searches, remaining, venuesWrite,
                   moshtixWrite, firstRun>>
    /\ UNCHANGED <<varsC, varsX, varsW, varsF>>

\* Lines 103-106: add_to_json updates the dict in place and its sorted copy
\* is written over mtix_venues.json.
MergeBack ==
    /\ prog = "moshtix_fetch_venue" /\ pcV = "merge"
    /\ venues' = put_all(venues, locations)
    /\ \E outcome \in WriteOutcomes :
        /\ venuesFile' = export_json(venuesFile, add_to_json(venues, locations), outcome)
        /\ venuesWrite' = outcome
    /\ pcV' = "pass2"
    /\ UNCHANGED <<prog, run, data, moshtixFile, loaded, success1, errors1,
                   success2, errors2, todo, valid_results, invalid_results,
                   toLocate, locations, searches, fetches, address, remaining,
                   moshtixWrite, firstRun>>
    /\ UNCHANGED <<varsC, varsX, varsW, varsF>>

\* A final_success that holds the hits of the first pass only.
final_success_first_pass(s1, s2) == s1

\* final_success = success1 + success2
final_success(s1, s2) == s1 \o s2

\* Lines 108-116: the second lookup pass over the misses of the first, the
\* export of moshtix.json and the log line.
SecondPass ==
    /\ prog = "moshtix_fetch_venue" /\ pcV = "pass2"
    /\ LET r == add_venue_info(errors1, venues) IN
        /\ success2' = r.success
        /\ errors2' = r.errors
        /\ remaining' = r.errors
        /\ \E outcome \in WriteOutcomes :
            /\ moshtixFile' = export_json(moshtixFile,
                                          final_success(success1, r.success), outcome)
            /\ moshtixWrite' = outcome
    /\ pcV' = "done"
    /\ UNCHANGED <<prog, run, data, venuesFile, venues, loaded, success1, errors1,
                   todo, valid_results, invalid_results, toLocate, locations,
                   searches, fetches, address, venuesWrite, firstRun>>
    /\ UNCHANGED <<varsC, varsX, varsW, varsF>>

\* moshtix_fetch_venue is started again on the same mtix_price.json and on
\* the mtix_venues.json the first run left.
RunAgain ==
    /\ prog = "moshtix_fetch_venue" /\ pcV = "done" /\ run = 1
    /\ run' = 2
    /\ pcV' = "start"
    /\ firstRun' = [resolved |-> {locations[i].venue : i \in DOMAIN locations},
                    persisted |-> venuesWrite = "ok"]
    /\ venues' = <<>> /\ loaded' = <<>>
    /\ success1' = <<>> /\ errors1' = <<>> /\ success2' = <<>> /\ errors2' = <<>>
    /\ todo' = <<>> /\ valid_results' = <<>> /\ invalid_results' = <<>>
    /\ toLocate' = <<>> /\ locations' = <<>>
    /\ searches' = NoCount /\ fetches' = NoCount /\ address' = NoAddresses
    /\ remaining' = <<>> /\ venuesWrite' = "none" /\ moshtixWrite' = "none"
    /\ UNCHANGED <<prog, data, venuesFile, moshtixFile>>
    /\ UNCHANGED <<varsC, varsX, varsW, varsF>>

NextVenue ==
    \/ FirstPass
    \/ FindVenueUrl
    \/ GetLocation
    \/ MergeBack
    \/ SecondPass
    \/ RunAgain

-----------------------------------------------------------------------------
(* The page crawls: MoshtixScraper._get_event_nodes (moshtix_cache.py),      *)
(* fetch_events (eventbrite.py), get_events (ticketek.py), extract_events   *)
(* (ticketmaster.py), get_event_cards (sydney_opera_house.py).              *)

CrawlSources ==
    {"moshtix_cache", "eventbrite", "ticketek", "ticketmaster", "sydney_opera_house"}

\* The scrapers that read the number of pages off the site; ticketek is
\* handed its end_page.
Discovering == {"moshtix_cache", "eventbrite", "ticketmaster", "sydney_opera_house"}

\* A range of pages that begins at page 1 for every scraper.
start_page_one(src) == 1

\* The first index of the range of pages.
start_page(src) == IF src \in {"ticketmaster", "sydney_opera_house"} THEN 0 ELSE 1

\* A range that takes the value read off the site as its exclusive end.
range_stop_exclusive(src, n) == n

\* The exclusive end of the range, from the value n read off the site
\* (or handed in): _extract_page_number, pagination and get_page_num return
\* n + 1 and the loop is range(start_page, end_page), in get_event_cards
\* range(end_page); extract_events loops over range(page_num + 1);
\* get_events loops over range(1, end_page).
range_stop(src, n) == IF src = "ticketek" THEN n ELSE n + 1

Pages == 0..(MaxPage + 1)

Item(p, k) == [page |-> p, item |-> k]

\* items 1..n of page p
RECURSIVE ItemsOf(_, _)
ItemsOf(p, n) == IF n = 0 THEN <<>> ELSE Append(ItemsOf(p, n - 1), Item(p, n))

\* How the request of one page ends, and how many items of the page are in
\* the result by then. A page that parses adds all its items. A request
\* that fails adds none. A parse that raises adds none where the result is
\* extended once per page, and in fetch_events, which appends item by item,
\* the items before the one that raised.
PageOutcomes(src) ==
    {[kind |-> "ok", kept |-> ItemsPerPage], [kind |-> "fetch_failed", kept |-> 0]}
        \cup {[kind |-> "parse_failed", kept |-> k] :
                k \in IF src = "eventbrite" THEN 0..(ItemsPerPage - 1) ELSE {0}}

\* A crawl that gives up at the first page that fails.
next_page_abort(p, outcome, end) == IF outcome.kind = "ok" THEN p + 1 ELSE end

\* The page the loop turns to after a page ended with `outcome`: every
\* except clause and the `continue` fall through to the next iteration.
next_page(p, outcome, end) == p + 1

NoPages == [p \in Pages |-> "none"]

InitCrawlIdle ==
    /\ pcC = "idle" /\ source = "none" /\ discovered = 0 /\ stop = 0 /\ page = 0
    /\ requested = <<>> /\ pageResult = NoPages /\ result = <<>>

InitCrawl ==
    /\ prog = "crawl"
    /\ pcC = "discover" /\ source \in CrawlSources
    /\ discovered = 0 /\ stop = 0 /\ page = 0
    /\ requested = <<>> /\ pageResult = NoPages /\ result = <<>>

\* The page count is read off the site (_get_end_page, pagination,
\* total_pages, find_last_page), or end_page is handed in (get_events).
\* Without a page count the scraper calls sys.exit. get_page_num reads the
\* attributes of the pager link outside any try: on a page without the link
\* css_first returns None and the AttributeError leaves the scraper.
Discover ==
    /\ prog = "crawl" /\ pcC = "discover"
    /\ \/ /\ source \in Discovering
          /\ pcC' = "exited"
          /\ UNCHANGED <<discovered, stop, page>>
       \/ /\ source = "sydney_opera_house"
          /\ pcC' = "raised"
          /\ UNCHANGED <<discovered, stop, page>>
       \/ \E n \in 0..MaxPage :
            /\ discovered' = n
            /\ stop' = range_stop(source, n)
            /\ page' = start_page(source)
            /\ pcC' = IF start_page(source) < range_stop(source, n)
                      THEN "crawl" ELSE "done"
    /\ UNCHANGED <<prog, source, requested, pageResult, result>>
    /\ UNCHANGED <<varsV, varsX, varsW, varsF>>

\* One iteration of the loop over the pages.
FetchPage ==
    /\ prog = "crawl" /\ pcC = "crawl"
    /\ \E outcome \in PageOutcomes(source) :
        LET next == next_page(page, outcome, stop) IN
        /\ requested' = Append(requested, page)
        /\ pageResult' = [pageResult EXCEPT ![page] = outcome.kind]
        /\ result' = result \o ItemsOf(page, outcome.kept)
        /\ page' = next
        /\ pcC' = IF next < stop THEN "crawl" ELSE "done"
    /\ UNCHANGED <<prog, source, discovered, stop>>
    /\ UNCHANGED <<varsV, varsX, varsW, varsF>>

NextCrawl ==
    \/ Discover
    \/ FetchPage

-----------------------------------------------------------------------------
(* Record extraction: extract_event_data (ticketek.py), fetch_data          *)
(* (ticketmaster.py), extract_data (moshtix_parse.py).                      *)

Extractors == {"ticketek", "ticketmaster", "moshtix_parse"}

\* The parts an item may lack: its title (the h6 node, the "name" key), its
\* venue (the contentLocation node, "_embedded" with its venues, the
\* "location" key), its date (the contentDate node, "dates", "startDate").
Parts == {"title", "venue", "date"}

\* An item is given by the set of parts it lacks.
Shapes == SUBSET Parts

\* ticketek.extract_event_data (lines 213-225) has no try: css_first returns
\* None for a node that is not there and .text() on it raises out of the
\* function (h6 at line 215, the location and date nodes in build_gig).
ticketek_item(lacks) ==
    IF lacks = {} THEN "converted" ELSE "raised"

\* ticketmaster.fetch_data (lines 102-121): data["_embedded"]["venues"][0] is
\* read before the try and raises out of the function; the keys read inside
\* the try are caught and the item is skipped.
ticketmaster_item(lacks) ==
    IF "venue" \in lacks THEN "raised"
    ELSE IF lacks # {} THEN "skipped"
    ELSE "converted"

\* moshtix_parse.extract_data (lines 53-68) has no try. A missing name or
\* startDate takes the default of event.get. get_location_info catches the
\* KeyError of a missing location and its handler reads event['name'] for
\* the log line, which raises again when the name is missing too.
moshtix_parse_item(lacks) ==
    IF "venue" \in lacks /\ "title" \in lacks THEN "raised" ELSE "converted"

\* What one iteration of the loop does with an item.
convert(fn, lacks) ==
    CASE fn = "ticketek" -> ticketek_item(lacks)
      [] fn = "ticketmaster" -> ticketmaster_item(lacks)
      [] fn = "moshtix_parse" -> moshtix_parse_item(lacks)

InitExtractIdle ==
    /\ pcX = "idle" /\ extractor = "none" /\ batch = <<>> /\ ix = 1
    /\ out = <<>> /\ returned = <<>>

InitExtract ==
    /\ prog = "extract"
    /\ pcX = "loop" /\ extractor \in Extractors
    /\ batch \in SeqsUpTo(Shapes, MaxBatch)
    /\ ix = 1 /\ out = <<>> /\ returned = <<>>

\* One iteration of the loop over the items: the item is converted and
\* appended, or skipped, or the exception leaves the function and the
\* caller receives nothing.
ExtractItem ==
    /\ prog = "extract" /\ pcX = "loop" /\ ix <= Len(batch)
    /\ LET r == convert(extractor, batch[ix]) IN
        /\ out' = IF r = "converted" THEN Append(out, ix) ELSE out
        /\ pcX' = IF r = "raised" THEN "raised" ELSE "loop"
        /\ ix' = ix + 1
    /\ UNCHANGED <<prog, extractor, batch, returned>>
    /\ UNCHANGED <<varsV, varsC, varsW, varsF>>

\* return result
ExtractReturn ==
    /\ prog = "extract" /\ pcX = "loop" /\ ix > Len(batch)
    /\ returned' = out
    /\ pcX' = "returned"
    /\ UNCHANGED <<prog, extractor, batch, ix, out>>
    /\ UNCHANGED <<varsV, varsC, varsW, varsF>>

NextExtract ==
    \/ ExtractItem
    \/ ExtractReturn

-----------------------------------------------------------------------------
(* webscraper.py: webscraper *)

bots == <<"century", "eventbrite", "moshtix_cache", "moshtix_parse", "oztix",
          "phoenix", "sydney_opera_house", "soh_fetch_price", "ticketek",
          "ticketmaster">>

\* The scrapers that call sys.exit when the page count cannot be read:
\* eventbrite.py:166-167, moshtix_cache.py:75-76,
\* sydney_opera_house.py:211-212, ticketmaster.py:132-133.
ExitOnDiscovery == {"eventbrite", "moshtix_cache", "sydney_opera_house", "ticketmaster"}

\* The scrapers that call sys.exit(1) when their first request fails or
\* finds nothing: oztix.py:141-149, phoenix.py:236-242,
\* sydney_opera_house.py:216-217.
ExitOnFetch == {"oztix", "phoenix", "sydney_opera_house"}

\* The scrapers in which an exception can leave the function: open_json
\* (moshtix_parse, soh_fetch_price), the extraction loops without a try
\* (moshtix_parse, ticketek) and get_page_num (sydney_opera_house).
Raising == {"moshtix_parse", "soh_fetch_price", "ticketek", "sydney_opera_house"}

\* How the call bot() may end.
BotOutcomes(b) ==
    {"returned"}
        \cup (IF b \in ExitOnDiscovery THEN {"discovery_failed"} ELSE {})
        \cup (IF b \in ExitOnFetch THEN {"fetch_failed"} ELSE {})
        \cup (IF b \in Raising THEN {"raised"} ELSE {})

\* A loop that catches whatever bot() ends with and goes on.
after_bot_swallowing(outcome) == "loop"

\* What the loop of webscraper() does when bot() ended with `outcome`: the
\* loop has no try, and neither have the timer and logger wrappers, so
\* SystemExit and every exception leave webscraper().
after_bot(outcome) ==
    CASE outcome = "returned" -> "loop"
      [] outcome \in {"discovery_failed", "fetch_failed"} -> "exited"
      [] outcome = "raised" -> "raised"

InitWebscraperIdle ==
    /\ pcW = "idle" /\ bot = 1 /\ invoked = <<>> /\ ended = "none" /\ wrote = {}

InitWebscraper ==
    /\ prog = "webscraper"
    /\ pcW = "loop" /\ bot = 1 /\ invoked = <<>> /\ ended = "none" /\ wrote = {}

\* One iteration of `for bot in bots: bot()`.
RunBot ==
    /\ prog = "webscraper" /\ pcW = "loop" /\ bot <= Len(bots)
    /\ \E outcome \in BotOutcomes(bots[bot]) :
        /\ invoked' = Append(invoked, bots[bot])
        /\ wrote' = IF outcome = "returned" THEN wrote \cup {bots[bot]} ELSE wrote
        /\ ended' = IF outcome = "returned" THEN ended ELSE outcome
        /\ pcW' = after_bot(outcome)
        /\ bot' = bot + 1
    /\ UNCHANGED prog
    /\ UNCHANGED <<varsV, varsC, varsX, varsF>>

\* The loop is over and webscraper() returns.
WebscraperReturn ==
    /\ prog = "webscraper" /\ pcW = "loop" /\ bot > Len(bots)
    /\ pcW' = "returned"
    /\ UNCHANGED <<prog, bot, invoked, ended, wrote>>
    /\ UNCHANGED <<varsV, varsC, varsX, varsF>>

NextWebscraper ==
    \/ RunBot
    \/ WebscraperReturn

-----------------------------------------------------------------------------
(* The functions that take one value and return one: clean_address         *)
(* (moshtix_venue.py), the record models with their date validators        *)
(* (phoenix.py, eventbrite.py, oztix.py), extract_data with MoshtixGig      *)
(* (moshtix_parse.py), the minimum-price helpers (century.py,               *)
(* sydney_opera_house_price.py, moshtix_parse.py), remove_duplicate_rows    *)
(* and the pipeline of build_tables (build_tables.py), Gig.clean_genre      *)
(* (century.py) and remove_duplicates (project/clean.py). `callee` names    *)
(* the function called on `arg`.                                            *)

\* The most comma-separated parts of an address text.
MaxParts == 2
\* The most tokens of one part.
MaxTokens == 2
\* The longest event name, in characters.
MaxChars == 2
\* The largest advertised price.
MaxPrice == 2
\* The most prices advertised for one event.
MaxOffers == 2
\* The most rows of the table handed to remove_duplicate_rows.
MaxRows == 4

\* ---- clean_address ----

\* The tokens of an address text: a word that is no state, and two states.
Tokens == {"KING", "NSW", "VIC"}

\* The address texts: one part or more (a text without a comma is one part),
\* a part may be empty.
AddressTexts ==
    {a \in SeqsUpTo(SeqsUpTo(Tokens, MaxTokens), MaxParts) : a # <<>>}

CleanAddress ==
    /\ prog = "call" /\ pcF = "called" /\ callee = "clean_address"
    /\ ret' = clean_address(arg)
    /\ pcF' = "returned"
    /\ UNCHANGED <<prog, callee, arg>>
    /\ UNCHANGED <<varsV, varsC, varsX, varsW>>

\* ---- the record models and their date validators ----

\* A date text: the way it is written, and the day, month and year it names.
\* "D Mon YYYY" is "3 Aug 2023", "DD Mon YYYY" is "03 Aug 2023".
DateText(form, day, month, year) ==
    [form |-> form, day |-> day, month |-> month, year |-> year]

DateForms ==
    {"D Mon YYYY", "DD Mon YYYY", "YYYY-MM-DD", "YYYY-MM-DDTHH:MM:SS", "TBA", ""}

DateTexts == {DateText(f, d, "Aug", "2023") : f \in DateForms, d \in {"3", "13"}}

\* "01 Jan 2099"
SentinelDate == DateText("DD Mon YYYY", "1", "Jan", "2099")

NoDate == DateText("", "", "", "")

\* What a validator hands back: the value of the field, or the exception.
Valid(v) == [raised |-> FALSE, value |-> v]
Raises == [raised |-> TRUE, value |-> NoDate]

\* phoenix.Gig.check_valid_date: a text the pattern does not match becomes
\* the sentinel; a day of one digit is padded with "0".
check_valid_date(v) ==
    IF v.form \notin {"D Mon YYYY", "DD Mon YYYY"} THEN Valid(SentinelDate)
    ELSE Valid([v EXCEPT !.form = "DD Mon YYYY"])

\* eventbrite.Gig.parse_date: strptime(v, "%Y-%m-%d") raises ValueError on
\* any other text.
parse_date(v) ==
    IF v.form = "YYYY-MM-DD" THEN Valid([v EXCEPT !.form = "DD Mon YYYY"])
    ELSE Raises

\* oztix.OztixGig.convert_date: `dt, time = v.split("T")` raises on a text
\* without exactly one "T", strptime on a first half that is no date.
convert_date(v) ==
    IF v.form = "YYYY-MM-DDTHH:MM:SS" THEN Valid([v EXCEPT !.form = "DD Mon YYYY"])
    ELSE Raises

RecordModels == {"phoenix.Gig", "eventbrite.Gig", "oztix.OztixGig"}

\* The texts the validator of a model takes for dates.
WellFormed(model) ==
    CASE model = "phoenix.Gig" -> {"D Mon YYYY", "DD Mon YYYY"}
      [] model = "eventbrite.Gig" -> {"YYYY-MM-DD"}
      [] model = "oztix.OztixGig" -> {"YYYY-MM-DDTHH:MM:SS"}

validate_date(model, v) ==
    CASE model = "phoenix.Gig" -> check_valid_date(v)
      [] model = "eventbrite.Gig" -> parse_date(v)
      [] model = "oztix.OztixGig" -> convert_date(v)

\* One iteration of the loop of fetch_data (phoenix.py:209-225,
\* eventbrite.py:138-152, oztix.py:114-129): the model is constructed
\* inside a try; an exception of the validator is logged and the item is
\* not appended.
fetch_data_item(model, v) ==
    LET r == validate_date(model, v) IN
    IF r.raised THEN [emitted |-> FALSE, event_date |-> NoDate]
    ELSE [emitted |-> TRUE, event_date |-> r.value]

FetchData ==
    /\ prog = "call" /\ pcF = "called" /\ callee \in RecordModels
    /\ ret' = fetch_data_item(callee, arg)
    /\ pcF' = "returned"
    /\ UNCHANGED <<prog, callee, arg>>
    /\ UNCHANGED <<varsV, varsC, varsX, varsW>>

\* ---- MoshtixGig.remove_accents and extract_data ----

\* The characters of an event name: an ASCII letter, a letter with an accent
\* (NFD splits it into its base letter and a combining mark), a letter
\* outside ASCII that NFD leaves whole, the space and the hyphen.
Chars == {"a", "E_ACUTE", "O_SLASH", " ", "-"}

ASCII == {"a", "e", " ", "-"}

Names == SeqsUpTo(Chars, MaxChars)

\* The events handed to extract_data: with a "name" key or without.
NamedEvents ==
    {[named |-> TRUE, name |-> n] : n \in Names}
        \cup {[named |-> FALSE, name |-> <<>>]}

RECURSIVE normalize_NFD(_)
\* unicodedata.normalize("NFD", v)
normalize_NFD(v) ==
    IF v = <<>> THEN <<>>
    ELSE (IF Head(v) = "E_ACUTE" THEN <<"e", "COMBINING_ACUTE">> ELSE <<Head(v)>>)
            \o normalize_NFD(Tail(v))

\* .encode("ascii", "ignore").decode("utf-8")
encode_ascii_ignore(v) == SelectSeq(v, LAMBDA c : c \in ASCII)

RECURSIVE lstrip(_)
lstrip(v) == IF v # <<>> /\ Head(v) = " " THEN lstrip(Tail(v)) ELSE v

RECURSIVE rstrip(_)
rstrip(v) ==
    IF v # <<>> /\ v[Len(v)] = " " THEN rstrip(SubSeq(v, 1, Len(v) - 1)) ELSE v

\* str.strip()
strip(v) == rstrip(lstrip(v))

\* The value of a str field after its validator: a text, or None.
Text(v) == [null |-> FALSE, text |-> v]
None == [null |-> TRUE, text |-> <<>>]

\* MoshtixGig.remove_accents: the body is under `if v != "-"` and there is
\* no return after it, so "-" comes back as None.
remove_accents(v) ==
    IF v # <<"-">> THEN Text(strip(encode_ascii_ignore(normalize_NFD(v))))
    ELSE None

\* The title of the record extract_data dumps for an event:
\* title=event.get("name", "-") through the validator.
extract_data_title(event) ==
    remove_accents(IF event.named THEN event.name ELSE <<"-">>)

ExtractData ==
    /\ prog = "call" /\ pcF = "called" /\ callee = "extract_data"
    /\ ret' = extract_data_title(arg)
    /\ pcF' = "returned"
    /\ UNCHANGED <<prog, callee, arg>>
    /\ UNCHANGED <<varsV, varsC, varsX, varsW>>

\* ---- the minimum-price helpers ----

\* An advertised price: its amount, and whether it is written with a
\* decimal part ("$2.00") or without ("$2").
Prices == [amount : 1..MaxPrice, decimals : BOOLEAN]

PriceLists == SeqsUpTo(Prices, MaxOffers)

Amounts(ps) == {ps[i].amount : i \in DOMAIN ps}

\* min() of a set of numbers that is not empty
Min(S) == CHOOSE x \in S : \A y \in S : x <= y

\* century.fetch_price: re.findall(r"\d+\.\d+", text) finds the numbers
\* with a decimal point only.
fetch_price(text) ==
    LET found == SelectSeq(text, LAMBDA p : p.decimals) IN
    IF Len(found) = 0 THEN 0 ELSE Min(Amounts(found))

\* sydney_opera_house_price.compile_price: find_prices matches "$" and
\* digits with an optional decimal part, find_lowest_price takes min().
compile_price(text) ==
    IF text # <<>> THEN Min(Amounts(text)) ELSE 0

\* moshtix_parse.get_price over the "offers" of the event.
get_price(nums) ==
    IF Len(nums) = 0 THEN 0
    ELSE IF Len(nums) = 1 THEN nums[1].amount
    ELSE Min(Amounts(nums))

PriceHelpers == {"fetch_price", "compile_price", "get_price"}

min_price(helper, ps) ==
    CASE helper = "fetch_price" -> fetch_price(ps)
      [] helper = "compile_price" -> compile_price(ps)
      [] helper = "get_price" -> get_price(ps)

MinPrice ==
    /\ prog = "call" /\ pcF = "called" /\ callee \in PriceHelpers
    /\ ret' = min_price(callee, arg)
    /\ pcF' = "returned"
    /\ UNCHANGED <<prog, callee, arg>>
    /\ UNCHANGED <<varsV, varsC, varsX, varsW>>

\* ---- remove_duplicate_rows ----

Titles == {"a", "b"}

\* The tables: a row has its title and venue, and `row`, its place in the
\* table as handed in (the columns that tell two rows of one title apart).
Frames ==
    {[i \in DOMAIN tv |-> [title |-> tv[i].title, venue |-> tv[i].venue, row |-> i]] :
        tv \in SeqsUpTo([title : Titles, venue : VenueNames], MaxRows)}

\* The values of a row in the columns of `subset`.
key(r, subset) == [c \in subset |-> r[c]]

RECURSIVE unique_from(_, _, _)
\* The rows of df whose key is not in `seen` and in no earlier row of df.
unique_from(df, subset, seen) ==
    IF df = <<>> THEN <<>>
    ELSE LET k == key(Head(df), subset) IN
         IF k \in seen THEN unique_from(Tail(df), subset, seen)
         ELSE <<Head(df)>> \o unique_from(Tail(df), subset, seen \cup {k})

\* A unique that keeps the last row of each key.
unique_keep_last(df, subset) ==
    LET Reverse(s) == [i \in DOMAIN s |-> s[Len(s) + 1 - i]]
    IN  Reverse(unique_from(Reverse(df), subset, {}))

\* df.unique(subset=..., maintain_order=True): with maintain_order the rows
\* are grouped in order of first appearance and the first row of each group
\* is taken.
unique(df, subset) == unique_from(df, subset, {})

\* A remove_duplicate_rows of the (title, venue) pass alone.
remove_duplicate_rows_by_pair(df) == unique(df, {"title", "venue"})

\* A remove_duplicate_rows that hands the rows back last row first.
remove_duplicate_rows_reversed(df) ==
    LET kept == unique(unique(df, {"title"}), {"title", "venue"})
    IN  [i \in DOMAIN kept |-> kept[Len(kept) + 1 - i]]

remove_duplicate_rows(df) ==
    unique(unique(df, {"title"}), {"title", "venue"})

RemoveDuplicateRows ==
    /\ prog = "call" /\ pcF = "called" /\ callee = "remove_duplicate_rows"
    /\ ret' = remove_duplicate_rows(arg)
    /\ pcF' = "returned"
    /\ UNCHANGED <<prog, callee, arg>>
    /\ UNCHANGED <<varsV, varsC, varsX, varsW>>

\* ---- build_tables ----

\* The most rows of the combined table handed to the pipeline.
MaxTableRows == 2
\* The latest real event date, in days after today.
MaxDay == 1

\* Dates are counted in days; create_date_filters: today = date.today(),
\* end_year = today + timedelta(days=365).
today == 0
YearDays == 365
end_year == today + YearDays

\* The date that "01 Jan 2099" parses to. It is later than end_year in every
\* run before 1 Jan 2098; how much later makes no difference.
sentinel_date == end_year + 1

EventDates == {today + d : d \in 0..MaxDay} \cup {sentinel_date}

\* The combined table after add_columns has parsed the dates and worked out
\* in_nsw and in_sydney: a row has its title, venue and event_date, `local`,
\* the value of in_nsw & in_sydney (state is "NSW" and the suburb is in the
\* list SYDNEY_SUBURBS), and `row`, its place in the combined table. Every
\* event_date is a text of the form "%d %b %Y", as the scrapers write it.
Tables ==
    {[i \in DOMAIN t |-> [title |-> t[i].title, venue |-> t[i].venue,
                          local |-> t[i].local, event_date |-> t[i].event_date,
                          row |-> i]] :
        t \in SeqsUpTo([title : {"a", "A", "b"}, venue : {"metro", "forum"},
                        local : BOOLEAN, event_date : EventDates], MaxTableRows)}

\* str.to_lowercase()
to_lowercase(text) == IF text = "A" THEN "a" ELSE text

\* apply_formats: title and venue in lower case.
apply_formats(df) ==
    [i \in DOMAIN df |-> [df[i] EXCEPT !.title = to_lowercase(@),
                                        !.venue = to_lowercase(@)]]

\* Series.is_between(lower, upper), both bounds included.
is_between(d, lower, upper) == lower <= d /\ d <= upper

\* apply_filter: the rows in NSW and in Sydney whose date is between today
\* and end_year.
apply_filter(df) ==
    SelectSeq(df, LAMBDA r : r.local /\ is_between(r.event_date, today, end_year))

\* apply_sort: sort("event_date", descending=False) without maintain_order,
\* which promises no order among rows of equal dates: every arrangement of
\* the rows with the dates ascending.
apply_sort(df) ==
    {p \in Perms(Range(df)) :
        \A i, j \in DOMAIN p : i < j => p[i].event_date <= p[j].event_date}

\* The pipeline of build_tables, from the table with its columns added to
\* the table that is written out.
BuildTables ==
    /\ prog = "call" /\ pcF = "called" /\ callee = "build_tables"
    /\ \E df \in apply_sort(apply_filter(apply_formats(arg))) :
        ret' = remove_duplicate_rows(df)
    /\ pcF' = "returned"
    /\ UNCHANGED <<prog, callee, arg>>
    /\ UNCHANGED <<varsV, varsC, varsX, varsW>>

\* ---- remove_duplicates (project/clean.py) ----

\* The table handed to remove_duplicates is a member of Frames, `title`
\* standing for its column Event and `venue` for its column Venue: the rows
\* come sorted by date and then title, and with the dates free every order
\* of the (Event, Venue) pairs is the order of some sorted table.

\* A drop_duplicates that keeps the first row of each key.
drop_duplicates_keep_first(df, subset) == unique_from(df, subset, {})

RECURSIVE drop_duplicates(_, _)
\* df.drop_duplicates(subset=..., keep="last", ignore_index=True): a row
\* goes when a later row has its key; the rows that stay keep their order.
drop_duplicates(df, subset) ==
    IF df = <<>> THEN <<>>
    ELSE IF \E j \in DOMAIN Tail(df) :
                key(Tail(df)[j], subset) = key(Head(df), subset)
         THEN drop_duplicates(Tail(df), subset)
         ELSE <<Head(df)>> \o drop_duplicates(Tail(df), subset)

remove_duplicates(df) == drop_duplicates(df, {"title", "venue"})

RemoveDuplicates ==
    /\ prog = "call" /\ pcF = "called" /\ callee = "remove_duplicates"
    /\ ret' = remove_duplicates(arg)
    /\ pcF' = "returned"
    /\ UNCHANGED <<prog, callee, arg>>
    /\ UNCHANGED <<varsV, varsC, varsX, varsW>>

\* ---- Gig.clean_genre (century.py) ----

\* The most pieces of a genre text.
MaxWords == 3

\* A genre text is the concatenation of its pieces: the two markers with
\* their separator, the keywords, a word that is no keyword, and a space.
\* No keyword begins in one piece and ends in the next.
GenreWords == {"Music - ", "Comedy", "Arts", "Other - ", "Other", "Rock", " "}

GenreTexts == SeqsUpTo(GenreWords, MaxWords)

\* `keyword in text`; "Other" is also found in the marker "Other - ".
contains(text, keyword) ==
    \E i \in DOMAIN text :
        text[i] = keyword \/ (keyword = "Other" /\ text[i] = "Other - ")

\* text.replace(marker, "")
replace(text, marker) == SelectSeq(text, LAMBDA w : w # marker)

\* str.strip() of a genre text: the spaces at both ends go, the space that
\* ends a marker left at the end included.
strip_genre(text) ==
    LET v == strip(text) IN
    IF v # <<>> /\ v[Len(v)] = "Other - "
    THEN [v EXCEPT ![Len(v)] = "Other -"]
    ELSE v

\* The rules of clean_genre tried from the last to the first.
clean_genre_last_match(text) ==
    IF contains(text, "Other") THEN strip_genre(replace(text, "Other - "))
    ELSE IF contains(text, "Arts") THEN <<"Arts">>
    ELSE IF contains(text, "Comedy") THEN <<"Comedy">>
    ELSE IF contains(text, "Music - ") THEN strip_genre(replace(text, "Music - "))
    ELSE <<"-">>

clean_genre(text) ==
    IF contains(text, "Music - ") THEN strip_genre(replace(text, "Music - "))
    ELSE IF contains(text, "Comedy") THEN <<"Comedy">>
    ELSE IF contains(text, "Arts") THEN <<"Arts">>
    ELSE IF contains(text, "Other") THEN strip_genre(replace(text, "Other - "))
    ELSE <<"-">>

CleanGenre ==
    /\ prog = "call" /\ pcF = "called" /\ callee = "clean_genre"
    /\ ret' = clean_genre(arg)
    /\ pcF' = "returned"
    /\ UNCHANGED <<prog, callee, arg>>
    /\ UNCHANGED <<varsV, varsC, varsX, varsW>>

\* remove_duplicate_rows called once more, on the table it returned.
RemoveDuplicateRowsAgain ==
    /\ prog = "call" /\ pcF = "returned" /\ callee = "remove_duplicate_rows"
    /\ ret' = remove_duplicate_rows(ret)
    /\ pcF' = "returned_again"
    /\ UNCHANGED <<prog, callee, arg>>
    /\ UNCHANGED <<varsV, varsC, varsX, varsW>>

\* ---- the calls ----

InitCallIdle ==
    /\ pcF = "idle" /\ callee = "none" /\ arg = <<>> /\ ret = <<>>

InitCall ==
    /\ prog = "call"
    /\ pcF = "called"
    /\ \/ callee = "clean_address" /\ arg \in AddressTexts
       \/ callee \in RecordModels /\ arg \in DateTexts
       \/ callee = "extract_data" /\ arg \in NamedEvents
       \/ callee \in PriceHelpers /\ arg \in PriceLists
       \/ callee = "remove_duplicate_rows" /\ arg \in Frames
       \/ callee = "clean_genre" /\ arg \in GenreTexts
       \/ callee = "remove_duplicates" /\ arg \in Frames
       \/ callee = "build_tables" /\ arg \in Tables
    /\ ret = <<>>

NextCall ==
    \/ CleanAddress
    \/ FetchData
    \/ ExtractData
    \/ MinPrice
    \/ RemoveDuplicateRows
    \/ RemoveDuplicateRowsAgain
    \/ CleanGenre
    \/ RemoveDuplicates
    \/ BuildTables

-----------------------------------------------------------------------------

Init ==
    \/ InitVenue /\ InitCrawlIdle /\ InitExtractIdle /\ InitWebscraperIdle /\ InitCallIdle
    \/ InitCrawl /\ InitVenueIdle /\ InitExtractIdle /\ InitWebscraperIdle /\ InitCallIdle
    \/ InitExtract /\ InitVenueIdle /\ InitCrawlIdle /\ InitWebscraperIdle /\ InitCallIdle
    \/ InitWebscraper /\ InitVenueIdle /\ InitCrawlIdle /\ InitExtractIdle /\ InitCallIdle
    \/ InitCall /\ InitVenueIdle /\ InitCrawlIdle /\ InitExtractIdle /\ InitWebscraperIdle

Next ==
    \/ NextVenue
    \/ NextCrawl
    \/ NextExtract
    \/ NextWebscraper
    \/ NextCall

Spec == Init /\ [][Next]_vars

\* One run of moshtix_fetch_venue on a directory file edited by hand.
InitEdited ==
    InitVenueEdited /\ InitCrawlIdle /\ InitExtractIdle /\ InitWebscraperIdle
        /\ InitCallIdle

NextOneRun ==
    \/ FirstPass
    \/ FindVenueUrl
    \/ GetLocation
    \/ MergeBack
    \/ SecondPass

SpecEdited == InitEdited /\ [][NextOneRun]_vars

-----------------------------------------------------------------------------
(* The claims. *)

\* C1: when the page-count discovery of one scraper fails, that scraper
\* writes no records and webscraper() still invokes every scraper that
\* comes after it in its list, so that by the end of the run every scraper
\* of the list was invoked.
C1_DiscoveryFailureKeepsRunGoing ==
    (prog = "webscraper" /\ pcW # "loop" /\ ended = "discovery_failed")
        => /\ invoked = bots
           /\ invoked[Len(invoked)] \notin wrote

\* the pages a..(b - 1), in order
PagesFrom(a, b) == [i \in 1..(b - a) |-> a + i - 1]

C3_MalformedItemSkippedAlone ==
    (prog = "extract" /\ pcX \in {"returned", "raised"})
        => \A i \in DOMAIN batch : batch[i] = {} => i \in Range(returned)

\* the ids of the events of a list
Ids(events) == {events[i].id : i \in DOMAIN events}

\* the venue names get_location resolved this run
Resolved == {locations[i].venue : i \in DOMAIN locations}

\* the venue whose fetched address clean_address could not parse
ParseFailed(v) ==
    address[v] # NoAddress /\ clean_address(address[v]) = Loc("-", "-")

\* C4: every event read from mtix_price.json is in the exported moshtix.json;
\* the events still unresolved after the second pass are in it with their
\* suburb and state as read, and are also logged as the remaining errors.
C4_UnresolvedEventsExported ==
    (prog = "moshtix_fetch_venue" /\ pcV = "done" /\ moshtixWrite = "ok")
        => /\ Ids(data) \subseteq Ids(moshtixFile.content)
           /\ \A i \in DOMAIN errors2 : errors2[i] \in Range(moshtixFile.content)
           /\ remaining = errors2

\* C5: an event whose venue is not in the directory and whose fetched
\* address has no comma, or no state token, ends the run with suburb "-"
\* and state "-" and is listed exactly once in the remaining errors.
C5_UnparsedVenueReportedOnce ==
    (prog = "moshtix_fetch_venue" /\ pcV = "done")
        => \A i \in DOMAIN data :
            (data[i].venue \notin Keys(loaded) /\ ParseFailed(data[i].venue))
                => Cardinality({j \in DOMAIN remaining :
                        /\ remaining[j].id = data[i].id
                        /\ remaining[j].suburb = "-"
                        /\ remaining[j].state = "-"}) = 1

\* C6: a venue whose address could not be parsed gets no entry: it is added
\* neither to the in-memory directory nor to the directory on disk.
C6_NoEntryForUnparsedAddress ==
    prog = "moshtix_fetch_venue"
        => \A v \in VenueNames :
            (ParseFailed(v) /\ v \notin Keys(loaded))
                => /\ v \notin Keys(venues)
                   /\ venuesFile.ok => v \notin Keys(venuesFile.content)

\* C7: in one run the search request of the fallback lookup is sent once for
\* each distinct venue name among the events that missed the directory,
\* however many events share the name, and never for another name; the
\* venue page is fetched at most once, and only for a name that was searched.
C7_OneLookupPerVenue ==
    prog = "moshtix_fetch_venue"
        => /\ \A v \in VenueNames :
                /\ searches[v] <= 1
                /\ fetches[v] <= searches[v]
                /\ searches[v] = 1 => v \in unknown_venues(errors1)
           /\ pcV \in {"locate", "merge", "pass2", "done"}
                => \A v \in unknown_venues(errors1) : searches[v] = 1

\* A finished run in which two events missed on the same venue name, which
\* was searched once.
C7_Witness ==
    /\ prog = "moshtix_fetch_venue" /\ pcV = "done"
    /\ \E i, j \in DOMAIN errors1 :
        /\ i # j
        /\ errors1[i].venue = errors1[j].venue
        /\ searches[errors1[i].venue] = 1
        /\ fetches[errors1[i].venue] = 1

\* C8: an event whose venue name is a key of the directory comes out of the
\* first pass in the resolved list with exactly the suburb and state of the
\* entry, and when every event hits the directory no request is sent.
C8_DirectoryHit ==
    (prog = "moshtix_fetch_venue" /\ pcV \in {"find", "locate", "merge", "pass2", "done"})
        => /\ \A i \in DOMAIN data :
                data[i].venue \in Keys(loaded)
                    => [data[i] EXCEPT
                            !.suburb = Entry(loaded, data[i].venue).suburb,
                            !.state = Entry(loaded, data[i].venue).state]
                        \in Range(success1)
           /\ (\A i \in DOMAIN data : data[i].venue \in Keys(loaded))
                => searches = NoCount /\ fetches = NoCount /\ venuesWrite = "none"

\* A finished run in which every event hit the directory and none was
\* looked up.
C8_Witness ==
    /\ prog = "moshtix_fetch_venue" /\ pcV = "done"
    /\ Len(data) = MaxEvents
    /\ \A i \in DOMAIN data : data[i].venue \in Keys(loaded)
    /\ Len(success1) = Len(data)
    /\ success1[1].suburb = "ENMORE" /\ success1[1].state = "NSW"
    /\ searches = NoCount

\* C9: in a second run on the same events, started from the directory the
\* first run persisted, no request is sent for a venue the first run
\* resolved.
C9_SecondRunSendsNothingForResolved ==
    (prog = "moshtix_fetch_venue" /\ run = 2 /\ firstRun.persisted)
        => \A v \in firstRun.resolved : searches[v] = 0 /\ fetches[v] = 0

\* A finished second run: a venue the first run resolved and saved is a hit
\* of the first pass, and a venue the first run could not resolve is searched
\* again.
C9_Witness ==
    /\ prog = "moshtix_fetch_venue" /\ run = 2 /\ pcV = "done"
    /\ firstRun.persisted
    /\ \E v \in firstRun.resolved :
        /\ searches[v] = 0
        /\ \E i \in DOMAIN success1 : success1[i].venue = v
    /\ \E w \in VenueNames \ firstRun.resolved : searches[w] = 1

\* C10: after add_to_json the directory maps every newly resolved venue to
\* its new suburb and state, in place of the entry the key had, and leaves
\* the other entries as loaded; the directory written to disk has the same
\* entries with the keys ascending; and the second pass moves every event of
\* a newly resolved venue to the resolved list.
C10_MergeBack ==
    (prog = "moshtix_fetch_venue" /\ venuesWrite # "none")
        => /\ \A i \in DOMAIN locations :
                /\ locations[i].venue \in Keys(venues)
                /\ Entry(venues, locations[i].venue)
                        = Loc(locations[i].suburb, locations[i].state)
           /\ Keys(venues) = Keys(loaded) \cup Resolved
           /\ Len(venues) = Cardinality(Keys(venues))
           /\ \A v \in Keys(loaded) \ Resolved : Entry(venues, v) = Entry(loaded, v)
           /\ venuesWrite = "ok"
                => /\ venuesFile.ok
                   /\ Range(venuesFile.content) = Range(venues)
                   /\ Len(venuesFile.content) = Len(venues)
                   /\ IsSortedDir(venuesFile.content)
           /\ pcV = "done"
                => \A i \in DOMAIN errors1 :
                    errors1[i].venue \in Resolved
                        => /\ errors1[i].id \in Ids(success2)
                           /\ errors1[i].id \notin Ids(errors2)
                           /\ \E j \in DOMAIN success2 :
                                /\ success2[j].id = errors1[i].id
                                /\ Loc(success2[j].suburb, success2[j].state)
                                        = Entry(venues, errors1[i].venue)

\* A finished run that replaced the entry of a key the file had, wrote the
\* directory in another order than the dict holds it, and resolved an event
\* in the second pass.
C10_Witness ==
    /\ prog = "moshtix_fetch_venue" /\ pcV = "done" /\ venuesWrite = "ok"
    /\ \E v \in Keys(loaded) \cap Resolved :
        /\ Entry(loaded, v) # Entry(venues, v)
        /\ Entry(venues, v) = Loc("NEWTOWN", "NSW")
    /\ venuesFile.content # venues
    /\ success2 # <<>>

\* C11: when the write of the venue directory fails (open() refused, or the
\* write broke off), the run goes on to the second lookup pass, which uses
\* the venues resolved in memory: every event of a venue resolved in this
\* run ends in the resolved list with the suburb and state just resolved,
\* and is in moshtix.json when that file is written.
C11_WriteFailureKeepsResolutions ==
    (prog = "moshtix_fetch_venue" /\ venuesWrite \in {"open_failed", "partial"})
        => /\ pcV \in {"pass2", "done"}
           /\ pcV = "done"
                => \A i \in DOMAIN errors1 : \A k \in DOMAIN locations :
                    errors1[i].venue = locations[k].venue
                        => LET enriched == [errors1[i] EXCEPT
                                                !.suburb = locations[k].suburb,
                                                !.state = locations[k].state]
                           IN  /\ enriched \in Range(success2)
                               /\ moshtixWrite = "ok"
                                    => enriched \in Range(moshtixFile.content)

\* A finished run whose directory write broke off and whose output holds an
\* event enriched from the venue resolved in memory.
C11_Witness ==
    /\ prog = "moshtix_fetch_venue" /\ pcV = "done" /\ run = 1
    /\ venuesWrite = "partial" /\ ~venuesFile.ok
    /\ moshtixWrite = "ok"
    /\ \E i \in DOMAIN moshtixFile.content :
        /\ moshtixFile.content[i].venue \in Resolved
        /\ moshtixFile.content[i].venue \notin Keys(loaded)
        /\ moshtixFile.content[i].state = "NSW"

\* C12: the venue directory is overwritten atomically: once export_json has
\* been called on it, whether the write succeeded, failed or broke off, the
\* file holds the complete directory it held before or the complete new
\* one, never an empty or partial text.
C12_DirectoryWriteAtomic ==
    (prog = "moshtix_fetch_venue" /\ venuesWrite # "none")
        => venuesFile \in {File(loaded), File(add_to_json(loaded, locations))}

\* C13: given the last-page value N read off the site, the crawl requests
\* exactly the pages 1..N (Moshtix, Eventbrite), 0..N (Sydney Opera House),
\* in order, each page once, and never page N + 1.
C13_InclusivePageRange ==
    (prog = "crawl" /\ pcC = "done"
        /\ source \in {"moshtix_cache", "eventbrite", "sydney_opera_house"})
        => LET first == IF source = "sydney_opera_house" THEN 0 ELSE 1 IN
           /\ Range(requested) = first..discovered
           /\ Len(requested) = Cardinality(first..discovered)
           /\ \A i, j \in DOMAIN requested : i < j => requested[i] < requested[j]
           /\ discovered + 1 \notin Range(requested)

\* Finished crawls of the largest last-page value: the Sydney Opera House
\* crawl requested page 0 and the last page.
C13_Witness ==
    /\ prog = "crawl" /\ pcC = "done" /\ source = "sydney_opera_house"
    /\ discovered = MaxPage
    /\ requested[1] = 0
    /\ requested[Len(requested)] = MaxPage
    /\ Len(requested) = MaxPage + 1

\* C14: get_events(base_url, node, end_page) fetches from exactly end_page
\* pages, end_page being the number of pages to fetch.
C14_TicketekFetchesEndPagePages ==
    (prog = "crawl" /\ pcC = "done" /\ source = "ticketek")
        => Len(requested) = discovered

RECURSIVE Flatten(_)
\* the tokens of all the parts of an address, in order
Flatten(addr) == IF addr = <<>> THEN <<>> ELSE Head(addr) \o Flatten(Tail(addr))

\* the places of the state tokens in a sequence of tokens
StateTokens(text) == {i \in DOMAIN text : text[i] \in states}

\* C15 (as stated): clean_address returns as state the first token of the
\* whole address, split at commas and spaces, that is in the fixed set, and
\* as suburb the tokens before it joined by spaces; the state returned is
\* in the set or "-".
C15_FirstStateTokenOfAddress ==
    (prog = "call" /\ callee = "clean_address" /\ pcF = "returned")
        => LET text == Flatten(arg) IN
           /\ ret.state \in states \cup {"-"}
           /\ StateTokens(text) # {}
                => \E i \in StateTokens(text) :
                    /\ \A j \in StateTokens(text) : i <= j
                    /\ ret.state = text[i]
                    /\ ret.suburb = Join(SubSeq(text, 1, i - 1))
           /\ StateTokens(text) = {} => ret.state = "-"

\* C15 (amended): clean_address reads only the part of the address after
\* its last comma: the state is the first token of that part that is in the
\* fixed set and the suburb the tokens of that part before it joined by
\* spaces; an address without a comma, or without a state token in its last
\* part, gives ("-", "-"); the state returned is in the set or "-", and
\* every address gets an answer.
C15_StateFromLastPart ==
    (prog = "call" /\ callee = "clean_address" /\ pcF = "returned")
        => LET text == arg[Len(arg)] IN
           /\ ret.state \in states \cup {"-"}
           /\ (Len(arg) > 1 /\ StateTokens(text) # {})
                => \E i \in StateTokens(text) :
                    /\ \A j \in StateTokens(text) : i <= j
                    /\ ret.state = text[i]
                    /\ ret.suburb = Join(SubSeq(text, 1, i - 1))
           /\ (Len(arg) = 1 \/ StateTokens(text) = {}) => ret = Loc("-", "-")

\* An address with a state token before its last comma and another after
\* it: the one after it is returned, with the word before it as suburb.
C15_Witness ==
    /\ prog = "call" /\ callee = "clean_address" /\ pcF = "returned"
    /\ arg = << <<"KING", "VIC">>, <<"KING", "NSW">> >>
    /\ ret = Loc("KING", "NSW")

\* C16: a date text that the validator of a record model does not take for
\* a date does not make the construction raise: the record is emitted and
\* carries the sentinel date "01 Jan 2099".
C16_MalformedDateGetsSentinel ==
    (prog = "call" /\ callee \in RecordModels /\ pcF = "returned"
        /\ arg.form \notin WellFormed(callee))
        => ret = [emitted |-> TRUE, event_date |-> SentinelDate]

\* C17: the title of the record extract_data emits is never null and never
\* empty: "-" for an event without a name, and else the name with its
\* accents folded to ASCII and the whitespace around it stripped.
C17_TitleNeverNullOrEmpty ==
    (prog = "call" /\ callee = "extract_data" /\ pcF = "returned")
        => /\ ~ret.null
           /\ ret.text # <<>>
           /\ ~arg.named => ret.text = <<"-">>
           /\ arg.named
                => ret.text = strip(encode_ascii_ignore(normalize_NFD(arg.name)))

\* C18: each minimum-price helper returns the least of all the prices
\* advertised for the event, and 0.0 when none is advertised.
C18_TrueMinimumPrice ==
    (prog = "call" /\ callee \in PriceHelpers /\ pcF = "returned")
        => ret = IF arg = <<>> THEN 0 ELSE Min(Amounts(arg))

TwoPairs(df) ==
    \E i, j, k, l \in DOMAIN df :
        /\ i < j /\ k < l /\ {i, j} \cap {k, l} = {}
        /\ df[i].title = df[j].title /\ df[i].venue # df[j].venue
        /\ df[k].title = df[l].title /\ df[k].venue = df[l].venue

\* C20 (as stated): on a table with two rows of one title and different
\* venues and two further rows sharing title and venue, both passes fire:
\* the (title, venue) pass removes a row that the title pass left.
C20_BothStagesFire ==
    (prog = "call" /\ callee = "remove_duplicate_rows" /\ pcF = "returned"
        /\ TwoPairs(arg))
        => \E r \in Range(unique(arg, {"title"})) : r \notin Range(ret)

\* C20 (amended): on such a table the title pass alone collapses both
\* pairs, one row of each title is left, and the (title, venue) pass removes
\* nothing: the table returned is the one the title pass left.
C20_PairPassRemovesNothing ==
    (prog = "call" /\ callee = "remove_duplicate_rows" /\ pcF = "returned"
        /\ TwoPairs(arg))
        => /\ ret = unique(arg, {"title"})
           /\ Len(ret) = Cardinality({arg[i].title : i \in DOMAIN arg})
           /\ Len(ret) <= Len(arg) - 2

\* The four-row table of the scenario: both pairs collapsed to one row each.
C20_Witness ==
    /\ prog = "call" /\ callee = "remove_duplicate_rows" /\ pcF = "returned"
    /\ Len(arg) = 4
    /\ arg[1].title = arg[2].title /\ arg[1].venue # arg[2].venue
    /\ arg[3].title = arg[4].title /\ arg[3].venue = arg[4].venue
    /\ arg[3].title # arg[1].title
    /\ ret = <<arg[1], arg[3]>>

\* C21: dedup is idempotent: remove_duplicate_rows called on the table it
\* returned for x returns that table again, row for row and in the same
\* order.
C21_DedupIdempotent ==
    (prog = "call" /\ callee = "remove_duplicate_rows" /\ pcF = "returned_again")
        => ret = remove_duplicate_rows(arg)

\* A second call on the result of a first call that dropped a row and kept
\* two.
C21_Witness ==
    /\ prog = "call" /\ callee = "remove_duplicate_rows" /\ pcF = "returned_again"
    /\ Len(ret) = 2
    /\ Len(arg) > 2
    /\ ret[1].row < ret[2].row

\* C25: the two lookup passes partition the input: when moshtix_fetch_venue
\* has run to its end every input event is in exactly one of final_success
\* (success1 + success2) and errors2, and no event is in final_success twice.
C25_PassesPartitionInput ==
    (prog = "moshtix_fetch_venue" /\ pcV = "done") =>
        LET fs == final_success(success1, success2) IN
        /\ Ids(fs) \cup Ids(errors2) = Ids(data)
        /\ Ids(fs) \cap Ids(errors2) = {}
        /\ \A i, j \in DOMAIN fs : fs[i].id = fs[j].id => i = j

\* A finished run whose second pass placed one event and left another.
C25_Witness ==
    /\ prog = "moshtix_fetch_venue" /\ pcV = "done"
    /\ success2 # <<>>
    /\ errors2 # <<>>

\* C26: add_venue_info changes only suburb and state, and only of the
\* events it returns as success: an event in the errors bucket of either
\* pass has every field as it was before the call, also when the directory
\* entry of its venue lacks a state, and no event's source is changed.
C26_ErrorsBucketUntouched ==
    (prog = "moshtix_fetch_venue" /\ pcV # "start") =>
        /\ \A i \in DOMAIN errors1 : errors1[i] = data[errors1[i].id]
        /\ \A i \in DOMAIN errors2 :
            \E j \in DOMAIN errors1 : errors2[i] = errors1[j]
        /\ \A i \in DOMAIN success1 : success1[i].source = data[success1[i].id].source
        /\ \A i \in DOMAIN success2 : success2[i].source = data[success2[i].id].source

\* C27: across a run of moshtix_fetch_venue the venue directory only grows:
\* every key of the directory as loaded is still a key of the dict the run
\* works on, and of the file once the run has written it, and the entry of
\* every venue that was not among the unknown venues looked up in this run
\* is the entry that was loaded.
C27_DirectoryOnlyGrows ==
    (prog = "moshtix_fetch_venue") =>
        LET kept(d) ==
                /\ Keys(loaded) \subseteq Keys(d)
                /\ \A v \in Keys(loaded) \ unknown_venues(errors1) :
                       Entry(d, v) = Entry(loaded, v)
        IN  /\ kept(venues)
            /\ pcV = "merge" => kept(add_to_json(venues, locations))
            /\ venuesWrite = "ok" => kept(venuesFile.content)

\* A run that loaded a directory, resolved a venue that was not in it and
\* wrote the directory back.
C27_Witness ==
    /\ prog = "moshtix_fetch_venue" /\ pcV = "done"
    /\ venuesWrite = "ok"
    /\ Keys(loaded) # {}
    /\ Keys(loaded) \ unknown_venues(errors1) # {}
    /\ Keys(venuesFile.content) \ Keys(loaded) # {}

\* C28: webscraper() runs its scrapers one after another in list order, and
\* a scraper starts only after every scraper before it returned normally:
\* moshtix_parse only after moshtix_cache returned, soh_fetch_price only
\* after sydney_opera_house returned, so a dependent stage never runs in a
\* run in which its producing stage exited.
C28_StagesInOrder ==
    (prog = "webscraper") =>
        /\ Len(invoked) <= Len(bots)
        /\ \A i \in DOMAIN invoked :
            /\ invoked[i] = bots[i]
            /\ \A j \in 1..(i - 1) : invoked[j] \in wrote
        /\ "moshtix_parse" \in Range(invoked) => "moshtix_cache" \in wrote
        /\ "soh_fetch_price" \in Range(invoked) => "sydney_opera_house" \in wrote

\* A run in which both dependent stages started and that a later scraper's
\* exit ended.
C28_Witness ==
    /\ prog = "webscraper" /\ pcW = "exited"
    /\ "moshtix_parse" \in Range(invoked)
    /\ "soh_fetch_price" \in Range(invoked)
    /\ {"moshtix_cache", "sydney_opera_house"} \subseteq wrote

\* C29: when total_pages reports N, extract_events of Ticketmaster requests
\* the page indexes 0..N, each once and in ascending order, N + 1 requests
\* in all, and a request that fails does not stop the ones after it.
C29_TicketmasterRequestsZeroToN ==
    (prog = "crawl" /\ source = "ticketmaster" /\ pcC \in {"crawl", "done"})
        => /\ page <= discovered + 1
           /\ requested = [i \in 1..page |-> i - 1]
           /\ pcC = "done" =>
                /\ Len(requested) = discovered + 1
                /\ \A p \in 0..discovered : pageResult[p] # "none"

\* A finished Ticketmaster crawl of the largest page count whose first and
\* second requests failed and whose last one, of page N, succeeded.
C29_Witness ==
    /\ prog = "crawl" /\ source = "ticketmaster" /\ pcC = "done"
    /\ discovered = MaxPage
    /\ Len(requested) = MaxPage + 1
    /\ pageResult[0] = "fetch_failed"
    /\ pageResult[1] = "parse_failed"
    /\ pageResult[MaxPage] = "ok"
    /\ requested[MaxPage + 1] = MaxPage

\* C24: genre bucketing tries its rules in the order "Music - ", "Comedy",
\* "Arts", "Other" and the first that matches decides: a text holding
\* "Music - " comes back with every "Music - " removed, whatever keyword of
\* a later rule it also holds; without it a text holding "Comedy" gives
\* "Comedy"; without both a text holding "Arts" gives "Arts"; and a text
\* that matches no rule gives "-".
C24_FirstMatchWins ==
    (prog = "call" /\ callee = "clean_genre" /\ pcF = "returned") =>
        LET has(k) == \E i \in DOMAIN arg : arg[i] = k
            other == has("Other") \/ has("Other - ")
            rest == SelectSeq(arg, LAMBDA w : w \notin {"Music - ", " "})
        IN  /\ has("Music - ") =>
                /\ ~contains(ret, "Music - ")
                /\ SelectSeq(ret, LAMBDA w : w # " ")
                     \in {rest, IF rest = <<>> THEN rest
                                ELSE [rest EXCEPT ![Len(rest)] =
                                        IF @ = "Other - " THEN "Other -" ELSE @]}
            /\ (~has("Music - ") /\ has("Comedy")) => ret = <<"Comedy">>
            /\ (~has("Music - ") /\ ~has("Comedy") /\ has("Arts")) => ret = <<"Arts">>
            /\ (~has("Music - ") /\ ~has("Comedy") /\ ~has("Arts") /\ ~other)
                    => ret = <<"-">>

\* A text with "Music - " and the keyword of a later rule, returned with
\* the marker removed and not as that rule's bucket.
C24_Witness ==
    /\ prog = "call" /\ callee = "clean_genre" /\ pcF = "returned"
    /\ arg = <<"Music - ", "Rock", "Comedy">>
    /\ ret = <<"Rock", "Comedy">>

\* C30: remove_duplicates of project/clean.py leaves no two rows with the
\* same (Event, Venue) pair, and of each pair the row it keeps is the last
\* one of the sorted table it was handed, the rows kept staying in order;
\* remove_duplicate_rows of build_tables keeps first rows instead.
C30_KeepsLastRowOfEachPair ==
    (prog = "call" /\ callee = "remove_duplicates" /\ pcF = "returned")
        => /\ \A i, j \in DOMAIN ret :
                i < j => /\ <<ret[i].title, ret[i].venue>> # <<ret[j].title, ret[j].venue>>
                         /\ ret[i].row < ret[j].row
           /\ \A i \in DOMAIN arg :
                arg[i] \in Range(ret)
                    <=> \A j \in (i + 1)..Len(arg) :
                            <<arg[j].title, arg[j].venue>> # <<arg[i].title, arg[i].venue>>

\* A table with one (Event, Venue) pair on two rows and another row between
\* them: the later row of the pair is kept, behind the row between, where
\* remove_duplicate_rows keeps the earlier one.
C30_Witness ==
    /\ prog = "call" /\ callee = "remove_duplicates" /\ pcF = "returned"
    /\ Len(arg) = 3
    /\ arg[1].title = arg[3].title /\ arg[1].venue = arg[3].venue
    /\ arg[2].title # arg[1].title
    /\ ret = <<arg[2], arg[3]>>
    /\ remove_duplicate_rows(arg) = <<arg[1], arg[2]>>

\* C22: the table build_tables produces (sort, then dedup) is non-decreasing
\* in event date for every two adjacent rows, and rows of equal dates are in
\* the order they had in the input (the sort is stable).
C22_SortedAndStable ==
    (prog = "call" /\ callee = "build_tables" /\ pcF = "returned")
        => \A i \in 1..(Len(ret) - 1) :
            /\ ret[i].event_date <= ret[i + 1].event_date
            /\ ret[i].event_date = ret[i + 1].event_date
                    => ret[i].row < ret[i + 1].row

\* C23: a record carrying the sentinel far-future date is still exported:
\* when it is in NSW and Sydney and no other record has its title, it is in
\* the table build_tables produces, after every record with a real date.
C23_SentinelRecordExported ==
    (prog = "call" /\ callee = "build_tables" /\ pcF = "returned")
        => \A i \in DOMAIN arg :
            (/\ arg[i].event_date = sentinel_date
             /\ arg[i].local
             /\ \A j \in DOMAIN arg \ {i} :
                    to_lowercase(arg[j].title) # to_lowercase(arg[i].title))
                => \E k \in DOMAIN ret :
                    /\ ret[k].row = i
                    /\ \A l \in DOMAIN ret :
                        ret[l].event_date # sentinel_date => l < k

====
